---- MODULE Spec2Model ----
(***************************************************************************)
(* State-machine model of the AzureMapPopup component                      *)
(* (src/plugin/components/AzureMapPopup.vue).                              *)
(*                                                                         *)
(* The component is driven by the Vue lifecycle (created, mounted,         *)
(* destroyed), by the parent re-rendering it with new props, and by the    *)
(* map SDK delivering open/close events of the popup. Every action below   *)
(* is one such callback, run to completion (the runtime is single          *)
(* threaded), SDK event handlers the callback triggers included.           *)
(*                                                                         *)
(* calls, fired, emits and pushed hold what the LAST step did: the SDK     *)
(* calls the component made, the events the SDK fired, the events the      *)
(* component emitted and the option mappings it passed to the popup.       *)
(***************************************************************************)
EXTENDS Integers, Sequences, FiniteSets, TLC

VARIABLES
    hasMap,        \* the ancestor provides getMap (inject, line 31)
    contentAttr,   \* this.$attrs.content is set
    production,    \* process.env.NODE_ENV = 'production'
    bound,         \* the parent writes every `update` value back (v-model)
    phase,         \* Vue lifecycle position of the component
    open,          \* prop `open`
    opts,          \* the five option props
    parentOpen,    \* the value the parent passes for `open` at its next render
    popups,        \* number of popup handles constructed
    popupOpen,     \* popup.isOpen()
    popupContent,  \* what the popup's content option is bound to
    popupOptions,  \* values in effect on the popup for the followed options (absent: SDK default)
    removed,       \* number of popup.remove() calls
    regs,          \* event types with a handler registered on the map for the popup
    onMounted,     \* the 'hook:mounted' listener is registered
    onDestroyed,   \* the 'hook:destroyed' listener is registered
    optionsWatch,  \* the options watcher is active
    openWatch,     \* the `open` watcher is active
    warned,        \* number of console.warn calls
    lastAct,       \* name of the last step
    prevOpen,      \* prop `open` before the last step
    prevPopupOpen, \* popup.isOpen() before the last step
    nChanged,      \* number of option props the last step changed
    raced,         \* the parent changed `open` while another value was still to be flushed
    calls,         \* SDK calls the component made in the last step
    fired,         \* events the SDK fired for the popup in the last step
    emits,         \* events the component emitted in the last step
    pushed         \* option mappings passed to the popup in the last step

env == <<hasMap, contentAttr, production, bound>>
vars == <<hasMap, contentAttr, production, bound, phase, open, opts, parentOpen,
          popups, popupOpen, popupContent, popupOptions, removed, regs, onMounted, onDestroyed,
          optionsWatch, openWatch, warned, lastAct, prevOpen, prevPopupOpen,
          nChanged, raced, calls, fired, emits, pushed>>

-----------------------------------------------------------------------------
(* Prop values.  A prop is <<>> when unset (null, the declared default) and *)
(* <<v>> when set to v.                                                     *)

Null == <<>>
Some(v) == <<v>>

\* most option props one re-render of the parent changes
MaxChanged == 2

OptionNames == {"closeButton", "fillColor", "pixelOffset", "position", "showPointer"}

BooleanProp == {Null, Some(TRUE), Some(FALSE)}
FlagProp == {Null, Some(FALSE)}
ColorProp == {Null, Some("red")}
PixelProp == {Null, Some(<<1, 2>>), Some(<<1, 23>>)}
PositionProp == {Null, Some(<<4, 5>>), Some(<<34, 5>>)}

OptionProps ==
    [closeButton : BooleanProp, fillColor : ColorProp, pixelOffset : PixelProp,
     position : PositionProp, showPointer : FlagProp]

\* computed popupOptionsProps: the five option props as one mapping
popupOptionsProps(o) ==
    [closeButton |-> o.closeButton, fillColor |-> o.fillColor,
     pixelOffset |-> o.pixelOffset, position |-> o.position,
     showPointer |-> o.showPointer]

\* getOptionsFromProps: the mapping without the unset fields
getOptionsFromProps(p) ==
    [k \in {f \in DOMAIN p : p[f] # Null} |-> p[k][1]]

-----------------------------------------------------------------------------
(* JavaScript string conversion, as `values += value` performs it.          *)

Digit(d) ==
    CASE d = 0 -> "0" [] d = 1 -> "1" [] d = 2 -> "2" [] d = 3 -> "3"
      [] d = 4 -> "4" [] d = 5 -> "5" [] d = 6 -> "6" [] d = 7 -> "7"
      [] d = 8 -> "8" [] d = 9 -> "9"

RECURSIVE NumberToString(_)
NumberToString(n) ==
    IF n < 0 THEN "-" \o NumberToString(-n)
    ELSE IF n < 10 THEN Digit(n)
    ELSE NumberToString(n \div 10) \o Digit(n % 10)

RECURSIVE ArrayToString(_)
ArrayToString(a) ==
    IF Len(a) = 0 THEN ""
    ELSE IF Len(a) = 1 THEN NumberToString(a[1])
    ELSE NumberToString(a[1]) \o "," \o ArrayToString(Tail(a))

BooleanToString(b) == IF b THEN "true" ELSE "false"

ToStr(name, v) ==
    IF v = Null THEN "null"
    ELSE IF name \in {"closeButton", "showPointer"} THEN BooleanToString(v[1])
    ELSE IF name = "fillColor" THEN v[1]
    ELSE ArrayToString(v[1])

OptionsWatchGetterShort(o) ==
    LET p == popupOptionsProps(o) IN
    ToStr("closeButton", p.closeButton) \o ToStr("fillColor", p.fillColor)
      \o ToStr("pixelOffset", p.pixelOffset) \o ToStr("position", p.position)

\* the getter of the options watcher: Object.values(popupOptionsProps) concatenated
OptionsWatchGetter(o) ==
    LET p == popupOptionsProps(o) IN
    ToStr("closeButton", p.closeButton) \o ToStr("fillColor", p.fillColor)
      \o ToStr("pixelOffset", p.pixelOffset) \o ToStr("position", p.position)
      \o ToStr("showPointer", p.showPointer)

-----------------------------------------------------------------------------
(* The run of one callback.  A callback works on a record m holding the    *)
(* popup and the map registrations together with what the callback has     *)
(* done so far; the SDK delivers an event synchronously, inside the call   *)
(* that causes it.                                                          *)

Start ==
    [popupOpen |-> popupOpen, popupContent |-> popupContent,
     popupOptions |-> popupOptions, regs |-> regs,
     parentOpen |-> parentOpen, calls |-> <<>>, fired |-> <<>>,
     emits |-> <<>>, pushed |-> <<>>]

BoolArg(b) == [kind |-> "boolean", value |-> b, type |-> "", seq |-> 0]
EventArg(e) == [kind |-> "event", value |-> FALSE, type |-> e.type, seq |-> e.seq]
PopupArg == [kind |-> "popup", value |-> FALSE, type |-> "", seq |-> 0]

\* model: { prop: 'open', event: 'update' }: a v-model parent stores the value
ModelWriteBack(m, name, arg) ==
    IF name = "update" /\ bound THEN arg.value ELSE m.parentOpen

\* this.$emit(name, arg)
Emit(m, name, arg) ==
    [m EXCEPT !.emits = Append(@, [name |-> name, arg |-> arg]),
              !.parentOpen = ModelWriteBack(m, name, arg)]

openEventHandlerInverted(m, targetedEvent) ==
    Emit(Emit(m, "update", BoolArg(FALSE)), "open", EventArg(targetedEvent))

openEventHandlerSwapped(m, targetedEvent) ==
    Emit(Emit(m, "open", EventArg(targetedEvent)), "update", BoolArg(TRUE))

openEventHandler(m, targetedEvent) ==
    Emit(Emit(m, "update", BoolArg(TRUE)), "open", EventArg(targetedEvent))

closeEventHandlerStale(m, targetedEvent) ==
    Emit(Emit(m, "update", BoolArg(TRUE)), "close", EventArg(targetedEvent))

closeEventHandler(m, targetedEvent) ==
    Emit(Emit(m, "update", BoolArg(FALSE)), "close", EventArg(targetedEvent))

\* the map dispatches an event of the popup to the handler registered for it
Fire(m, type) ==
    LET e == [type |-> type, seq |-> Len(m.fired) + 1]
        m1 == [m EXCEPT !.fired = Append(@, e)]
    IN  IF type \notin m.regs THEN m1
        ELSE IF type = "open" THEN openEventHandler(m1, e)
        ELSE closeEventHandler(m1, e)

\* atlas.Popup: open(map) shows the popup and fires `open`; on a popup that
\* is already open the event may or may not be fired again (refire)
SdkOpen(m, refire) ==
    IF m.popupOpen
    THEN IF refire THEN Fire(m, "open") ELSE m
    ELSE Fire([m EXCEPT !.popupOpen = TRUE], "open")

\* atlas.Popup: close() hides an open popup and fires `close`
SdkClose(m) ==
    IF m.popupOpen THEN Fire([m EXCEPT !.popupOpen = FALSE], "close") ELSE m

\* the option props whose value in effect on the popup the model follows
FollowedOptions == {"fillColor"}

\* atlas.Popup: the options in effect after o is merged into cur: a field
\* that o carries takes o's value, any other field keeps the value it has
MergeOptions(cur, o) ==
    [k \in DOMAIN cur \cup (DOMAIN o \cap FollowedOptions) |->
        IF k \in DOMAIN o THEN o[k] ELSE cur[k]]

\* atlas.Popup: setOptions(o) merges o into the options in effect
SdkSetOptions(m, o) ==
    [m EXCEPT !.popupContent = IF "content" \in DOMAIN o THEN o.content ELSE @,
              !.popupOptions = MergeOptions(@, o)]

\* atlas.Popup: new Popup(o) starts from the SDK defaults and merges o
SdkNewPopup(m, o) ==
    [m EXCEPT !.popupOptions = MergeOptions([k \in {} |-> Null], o)]

Call(m, op) == [m EXCEPT !.calls = Append(@, op)]

PopupSetOptions(m, o) ==
    SdkSetOptions([Call(m, "setOptions") EXCEPT !.pushed = Append(@, o)], o)
PopupOpen(m, refire) == SdkOpen(Call(m, "open"), refire)
PopupClose(m) == SdkClose(Call(m, "close"))
\* popup.remove() closes the popup and detaches it from the map
PopupRemove(m) == SdkClose(Call(m, "remove"))
EventsAdd(m, type) ==
    [Call(m, "events.add:" \o type) EXCEPT !.regs = @ \cup {type}]
EventsRemove(m, type) ==
    [Call(m, "events.remove:" \o type) EXCEPT !.regs = @ \ {type}]

OpenWatcherCallbackNoGuard(m, newVal, refire) ==
    IF newVal THEN PopupOpen(m, refire) ELSE PopupClose(m)

\* callback of this.$watch('open', ...)
OpenWatcherCallback(m, newVal, refire) ==
    IF newVal THEN PopupOpen(m, refire)
    ELSE IF m.popupOpen THEN PopupClose(m)
    ELSE m

OptionsWatcherCallbackReopens(m, o) ==
    PopupOpen(PopupSetOptions(m, getOptionsFromProps(popupOptionsProps(o))), FALSE)

\* callback of the options watcher
OptionsWatcherCallback(m, o) ==
    PopupSetOptions(m, getOptionsFromProps(popupOptionsProps(o)))

\* a Vue watcher runs its callback when the watched value has changed
WatcherFires(old, new) == old # new

MountedHookOpensTwice(m, refire) ==
    LET m1 == PopupSetOptions(m, [k \in {"content"} |-> "$el"])
        m2 == EventsAdd(m1, "open")
        m3 == EventsAdd(m2, "close")
        m4 == IF open THEN PopupOpen(m3, FALSE) ELSE m3
    IN  OpenWatcherCallback(m4, open, FALSE)

MountedHookOneHandler(m, refire) ==
    LET m1 == PopupSetOptions(m, [k \in {"content"} |-> "$el"])
        m2 == EventsAdd(m1, "open")
    IN  OpenWatcherCallback(m2, open, refire)

MountedHookOpensFirst(m, refire) ==
    LET m1 == OpenWatcherCallback(m, open, refire)
        m2 == PopupSetOptions(m1, [k \in {"content"} |-> "$el"])
        m3 == EventsAdd(m2, "open")
    IN  EventsAdd(m3, "close")

\* the 'hook:mounted' listener; { immediate: true } runs the callback at once
MountedHook(m, refire) ==
    LET m1 == PopupSetOptions(m, [k \in {"content"} |-> "$el"])
        m2 == EventsAdd(m1, "open")
        m3 == EventsAdd(m2, "close")
    IN  OpenWatcherCallback(m3, open, refire)

DestroyedHookKeepsClose(m) ==
    EventsRemove(PopupRemove(m), "open")

DestroyedHookNoRemove(m) ==
    EventsRemove(EventsRemove(m, "open"), "close")

\* the 'hook:destroyed' listener
DestroyedHook(m) ==
    EventsRemove(EventsRemove(PopupRemove(m), "open"), "close")

\* the outcomes of popup.open(map): one when the popup is closed, two when
\* it is already open (the event is fired again or not)
Refire == IF popupOpen THEN BOOLEAN ELSE {FALSE}

Count(seq, x) == Cardinality({i \in 1..Len(seq) : seq[i] = x})

Apply(m) ==
    /\ popupOpen' = m.popupOpen
    /\ popupContent' = m.popupContent
    /\ popupOptions' = m.popupOptions
    /\ regs' = m.regs
    /\ parentOpen' = m.parentOpen
    /\ calls' = m.calls
    /\ fired' = m.fired
    /\ emits' = m.emits
    /\ pushed' = m.pushed
    /\ removed' = removed + Count(m.calls, "remove")

Record(act, changed) ==
    /\ lastAct' = act
    /\ prevOpen' = open
    /\ prevPopupOpen' = popupOpen
    /\ nChanged' = changed

-----------------------------------------------------------------------------
Init ==
    /\ hasMap \in BOOLEAN
    /\ contentAttr \in BOOLEAN
    \* NODE_ENV is read only behind `this.$attrs.content &&`
    /\ production \in (IF contentAttr THEN BOOLEAN ELSE {FALSE})
    /\ bound \in BOOLEAN
    /\ phase = "new"
    /\ open \in BOOLEAN
    /\ parentOpen = open
    /\ opts \in OptionProps
    /\ popups = 0
    /\ popupOpen = FALSE
    /\ popupContent = "none"
    /\ popupOptions = [k \in {} |-> Null]
    /\ removed = 0
    /\ regs = {}
    /\ onMounted = FALSE
    /\ onDestroyed = FALSE
    /\ optionsWatch = FALSE
    /\ openWatch = FALSE
    /\ warned = 0
    /\ lastAct = "Init"
    /\ prevOpen = open
    /\ prevPopupOpen = FALSE
    /\ nChanged = 0
    /\ raced = FALSE
    /\ calls = << >>
    /\ fired = << >>
    /\ emits = << >>
    /\ pushed = << >>

GetMapMissingIgnored == FALSE

\* const getMap = getMapInjection(this); if (!getMap) return
GetMapMissing == ~hasMap

ContentRejectedAlways == contentAttr

\* this.$attrs.content && process.env.NODE_ENV !== 'production'
ContentRejected == contentAttr /\ ~production

\* the created() hook
Created ==
    /\ phase = "new"
    /\ phase' = "created"
    /\ Record("Created", 0)
    /\ UNCHANGED <<env, open, opts, openWatch, raced>>
    /\ IF GetMapMissing
       THEN /\ Apply(Start)
            /\ UNCHANGED <<popups, onMounted, onDestroyed, optionsWatch, warned>>
       ELSE IF ContentRejected
       THEN /\ Apply(Start)
            /\ warned' = warned + 1
            /\ UNCHANGED <<popups, onMounted, onDestroyed, optionsWatch>>
       ELSE LET o == getOptionsFromProps(popupOptionsProps(opts))
                m1 == SdkNewPopup(
                          [Call(Start, "new Popup") EXCEPT !.pushed = Append(@, o)], o)
            IN  /\ Apply(Emit(m1, "created", PopupArg))
                /\ popups' = popups + 1
                /\ onMounted' = TRUE
                /\ optionsWatch' = TRUE
                /\ onDestroyed' = TRUE
                /\ UNCHANGED warned

\* Vue mounts the component and emits 'hook:mounted'
Mounted ==
    /\ phase = "created"
    /\ phase' = "mounted"
    /\ Record("Mounted", 0)
    /\ UNCHANGED <<env, open, opts, popups, onMounted, onDestroyed, optionsWatch, warned>>
    /\ IF onMounted
       THEN /\ \E refire \in Refire : Apply(MountedHook(Start, refire))
            /\ openWatch' = TRUE
            /\ raced' = FALSE
       ELSE /\ Apply(Start)
            /\ UNCHANGED <<openWatch, raced>>

\* the parent re-renders: the props take the parent's values and the
\* watchers whose value changed run in the order they were created
Render ==
    /\ phase \in {"created", "mounted"}
    /\ \E newOpts \in OptionProps, refire \in Refire :
         LET newOpen == parentOpen
             changed == {f \in OptionNames : opts[f] # newOpts[f]}
             m1 == IF optionsWatch /\
                      WatcherFires(OptionsWatchGetter(opts), OptionsWatchGetter(newOpts))
                   THEN OptionsWatcherCallback(Start, newOpts)
                   ELSE Start
             m2 == IF openWatch /\ WatcherFires(open, newOpen)
                   THEN OpenWatcherCallback(m1, newOpen, refire)
                   ELSE m1
         IN  /\ Cardinality(changed) <= MaxChanged
             /\ open' = newOpen
             /\ opts' = newOpts
             /\ Apply(m2)
             /\ Record("Render", Cardinality(changed))
             /\ raced' = IF openWatch /\ WatcherFires(open, newOpen) THEN FALSE ELSE raced
    /\ UNCHANGED <<env, phase, popups, onMounted, onDestroyed, optionsWatch, openWatch, warned>>

\* the parent assigns the data it binds to `open`
ParentSetOpen ==
    /\ phase \in {"created", "mounted"}
    /\ Apply([Start EXCEPT !.parentOpen = ~parentOpen])
    /\ raced' = (parentOpen # open)
    /\ Record("ParentSetOpen", 0)
    /\ UNCHANGED <<env, phase, open, opts, popups, onMounted, onDestroyed,
                   optionsWatch, openWatch, warned>>

WriteBack(m) == IF bound /\ m.emits # << >> THEN FALSE ELSE raced

\* the user presses the popup's close button, or the holder of the handle
\* given by `created` calls popup.close()
UserClose ==
    /\ popups > 0
    /\ popupOpen
    /\ LET m == SdkClose(Start) IN Apply(m) /\ raced' = WriteBack(m)
    /\ Record("UserClose", 0)
    /\ UNCHANGED <<env, phase, open, opts, popups, onMounted, onDestroyed,
                   optionsWatch, openWatch, warned>>

\* the holder of the handle given by `created` calls popup.open(map)
HandleOpen ==
    /\ popups > 0
    /\ \E refire \in Refire :
         LET m == SdkOpen(Start, refire) IN Apply(m) /\ raced' = WriteBack(m)
    /\ Record("HandleOpen", 0)
    /\ UNCHANGED <<env, phase, open, opts, popups, onMounted, onDestroyed,
                   optionsWatch, openWatch, warned>>

\* the holder of the handle calls popup.close() and then popup.open(map)
HandleReopen ==
    /\ popups > 0
    /\ popupOpen
    /\ LET m == SdkOpen(SdkClose(Start), FALSE) IN Apply(m) /\ raced' = WriteBack(m)
    /\ Record("HandleReopen", 0)
    /\ UNCHANGED <<env, phase, open, opts, popups, onMounted, onDestroyed,
                   optionsWatch, openWatch, warned>>

\* vm.$destroy(): the watchers are torn down, 'hook:destroyed' is emitted,
\* then every listener of the component is removed
Destroyed ==
    /\ phase \in {"created", "mounted"}
    /\ phase' = "destroyed"
    /\ Record("Destroyed", 0)
    /\ optionsWatch' = FALSE
    /\ openWatch' = FALSE
    /\ onMounted' = FALSE
    /\ onDestroyed' = FALSE
    /\ IF onDestroyed THEN Apply(DestroyedHook(Start)) ELSE Apply(Start)
    /\ UNCHANGED <<env, open, opts, popups, warned, raced>>

Next ==
    \/ Created
    \/ Mounted
    \/ Render
    \/ ParentSetOpen
    \/ UserClose
    \/ HandleOpen
    \/ HandleReopen
    \/ Destroyed

Spec == Init /\ [][Next]_vars

-----------------------------------------------------------------------------
(* Properties.                                                              *)

\* the component went through created() with a map accessor and without
\* being stopped by the content-attribute check, so that it owns a popup
Active == popups > 0

NoSdkCall == calls = << >> /\ pushed = << >>

EmitCount(name) ==
    Cardinality({i \in 1..Len(emits) : emits[i].name = name})

\* C1: without a map accessor the component stays inert for its whole life:
\* no popup handle is constructed, no step makes an SDK call and no step
\* emits `created`, `open`, `close` or `update`.
C1_InertWithoutMap ==
    ~hasMap =>
        /\ popups = 0
        /\ NoSdkCall
        /\ emits = << >>
        /\ regs = {}
        /\ removed = 0

C1_Witness ==
    /\ ~hasMap
    /\ phase = "mounted"
    /\ lastAct = "Render"
    /\ nChanged > 0
    /\ prevOpen # open

\* a state after mount and before teardown with nothing left to flush
Quiescent == phase = "mounted" /\ parentOpen = open

\* C2 (as stated): in every quiescent state after mount and before teardown
\* popup.isOpen() equals `open`, whether or not the parent writes `update`
\* values back.
C2_Original ==
    (Active /\ Quiescent) => popupOpen = open

\* C2 (amended): in every quiescent state after mount and before teardown
\* popup.isOpen() equals `open`, provided the parent writes every `update`
\* value back into `open` and does not assign `open` itself while another
\* value is still waiting to be flushed to the prop.
C2_SyncWhenBound ==
    (Active /\ Quiescent /\ bound /\ ~raced) => popupOpen = open

C2_Witness ==
    /\ Active /\ Quiescent /\ bound /\ ~raced
    /\ lastAct = "Render"
    /\ prevOpen /\ ~open /\ ~prevPopupOpen /\ ~popupOpen

C4_OpenWatcher ==
    /\ (Active /\ phase = "mounted" /\ lastAct = "Render" /\ ~prevOpen /\ open)
           => Count(calls, "open") = 1 /\ Count(calls, "close") = 0
    /\ (Active /\ phase = "mounted" /\ lastAct = "Render" /\ prevOpen /\ ~open)
           => /\ Count(calls, "open") = 0
              /\ Count(calls, "close") = (IF prevPopupOpen THEN 1 ELSE 0)
    /\ Count(calls, "close") > 0 => prevPopupOpen

C4_Witness ==
    /\ Active /\ phase = "mounted" /\ lastAct = "Render"
    /\ prevOpen /\ ~open /\ ~prevPopupOpen
    /\ Count(calls, "close") = 0

\* the mapping o holds exactly the option props that are set, with their values
FullOptionSet(o) ==
    /\ DOMAIN o = {f \in OptionNames : opts[f] # Null}
    /\ \A f \in DOMAIN o : o[f] = opts[f][1]

\* C5: a re-render that changes exactly one of the five option props makes
\* exactly one popup.setOptions call, and the call carries the option set
\* computed from all five current props.
C5_OneBatchedUpdate ==
    (Active /\ lastAct = "Render" /\ nChanged = 1)
        => /\ Count(calls, "setOptions") = 1
           /\ Len(pushed) = 1
           /\ FullOptionSet(pushed[1])

C5_Witness ==
    /\ Active /\ lastAct = "Render" /\ nChanged = 1
    /\ Len(pushed) = 1
    /\ DOMAIN pushed[1] = OptionNames

\* C6 (as stated): every re-render that changes the option set, in one
\* prop or in several at once, pushes the recomputed option mapping to the
\* popup with popup.setOptions.
C6_AnyChangePushed ==
    (Active /\ lastAct = "Render" /\ nChanged >= 1)
        => /\ Count(calls, "setOptions") >= 1
           /\ Len(pushed) >= 1
           /\ FullOptionSet(pushed[Len(pushed)])

\* C7: teardown removes both event registrations and the popup handle, and
\* no step after teardown emits anything, whatever events the SDK fires for
\* the popup; mounted or not.
C7_TeardownReleases ==
    (Active /\ phase = "destroyed")
        => /\ regs = {}
           /\ removed = 1
           /\ lastAct = "Destroyed"
                 => /\ Count(calls, "remove") = 1
                    /\ Count(calls, "events.remove:open") = 1
                    /\ Count(calls, "events.remove:close") = 1
           /\ lastAct # "Destroyed" => emits = << >> /\ NoSdkCall

C7_Witness ==
    /\ Active /\ phase = "destroyed"
    /\ popupContent = "$el"
    /\ lastAct = "UserClose"
    /\ Len(fired) = 1
    /\ emits = << >>

\* no mapping passed to the popup carries a content other than the rendered element
OnlyElementContent ==
    \A i \in 1..Len(pushed) :
        "content" \in DOMAIN pushed[i] => pushed[i].content = "$el"

CreatedOnce ==
    /\ EmitCount("created") = (IF lastAct = "Created" THEN 1 ELSE 0)
    /\ \A i \in 1..Len(emits) : emits[i].name = "created" => emits[i].arg = PopupArg

RemovedAtTeardown ==
    /\ removed = (IF phase = "destroyed" THEN 1 ELSE 0)
    /\ Count(calls, "remove") = (IF lastAct = "Destroyed" THEN 1 ELSE 0)

RECURSIVE Forwarded(_)
Forwarded(evs) ==
    IF evs = << >> THEN << >>
    ELSE << [name |-> "update", arg |-> BoolArg(evs[1].type = "open")],
            [name |-> evs[1].type, arg |-> EventArg(evs[1])] >>
         \o Forwarded(Tail(evs))

\* C10: between mount and teardown every open event the SDK delivers makes
\* the component emit update(true) and then open(payload), every close event
\* update(false) and then close(payload), one pair per event in the order
\* of delivery.
C10_ForwardInOrder ==
    (Active /\ phase = "mounted") => emits = Forwarded(fired)

C10_Witness ==
    /\ Active /\ phase = "mounted"
    /\ lastAct = "HandleReopen"
    /\ Len(fired) = 2
    /\ Len(emits) = 4

\* every option mapping passed to the popup leaves the unset props out
UnsetOmitted ==
    \A i \in 1..Len(pushed) :
        \A f \in DOMAIN pushed[i] \cap OptionNames : opts[f] # Null

\* C11 (as stated): the options in effect on the popup equal the current
\* props, an unset prop having the SDK default in effect: unset fields are
\* left out of every mapping passed to the SDK, and a prop changed back to
\* unset falls back to the default instead of keeping its previous value.
C11_UnsetFallsBack ==
    Active =>
        /\ UnsetOmitted
        /\ \A f \in FollowedOptions :
              IF opts[f] = Null
              THEN f \notin DOMAIN popupOptions
              ELSE f \in DOMAIN popupOptions /\ popupOptions[f] = opts[f][1]

BothHandlers == {"open", "close"}

\* C12: at mount the content is set to the rendered output, then the open
\* and close handlers are registered, then the current `open` value is
\* applied; popup.open(map) is never called before the content is bound and
\* both handlers are registered, and no change of `open` before mount
\* causes an SDK open or close call.
C12_MountOrder ==
    Active =>
        /\ lastAct = "Mounted" =>
              /\ Len(calls) >= 3
              /\ SubSeq(calls, 1, 3) =
                     << "setOptions", "events.add:open", "events.add:close" >>
              /\ Len(pushed) = 1
              /\ DOMAIN pushed[1] = {"content"}
              /\ pushed[1].content = "$el"
              /\ SubSeq(calls, 4, Len(calls)) =
                     (IF open THEN << "open" >>
                      ELSE IF prevPopupOpen THEN << "close" >>
                      ELSE << >>)
              /\ prevOpen = open
              /\ popupOpen = open
        /\ Count(calls, "open") > 0 =>
              /\ popupContent = "$el"
              /\ regs = BothHandlers
              /\ emits # << >> \/ prevPopupOpen
        /\ phase = "created" =>
              Count(calls, "open") = 0 /\ Count(calls, "close") = 0

C12_Witness ==
    /\ Active /\ lastAct = "Mounted" /\ open
    /\ calls = << "setOptions", "events.add:open", "events.add:close", "open" >>
    /\ Len(emits) = 2
    /\ popupContent = "$el"

\* C13 (as stated): teardown removes the popup handle first and then both
\* event registrations, and the component emits no `open`, `close` or
\* `update` during teardown, also when the popup is open and the SDK fires
\* `close` as popup.remove() closes it.
C13_QuietTeardown ==
    (Active /\ lastAct = "Destroyed") =>
        /\ calls = << "remove", "events.remove:open", "events.remove:close" >>
        /\ emits = << >>

\* the calls that reach the map: map.events.add, map.events.remove, popup.open(map)
MapCalls ==
    {"events.add:open", "events.add:close", "events.remove:open",
     "events.remove:close", "open"}

\* the calls that stay on the popup handle
PopupCalls == {"new Popup", "setOptions", "close", "remove"}

\* C14: the component reaches the map only through events.add,
\* events.remove and popup.open(map), and its two reactions are independent:
\* a change of option props makes only popup.setOptions calls and leaves the
\* popup's open state and the registrations alone, a change of `open` makes
\* only popup.open / popup.close calls and no setOptions call.
C14_IndependentReactions ==
    Active =>
        /\ \A i \in 1..Len(calls) : calls[i] \in MapCalls \cup PopupCalls
        /\ (lastAct = "Render" /\ prevOpen = open) =>
              /\ \A i \in 1..Len(calls) : calls[i] = "setOptions"
              /\ popupOpen = prevPopupOpen
              /\ fired = << >>
              /\ emits = << >>
        /\ (lastAct = "Render" /\ nChanged = 0) =>
              /\ \A i \in 1..Len(calls) : calls[i] \in {"open", "close"}
              /\ pushed = << >>
        /\ lastAct = "Render" =>
              /\ Count(calls, "setOptions") <= 1
              /\ regs = (IF phase = "mounted" THEN BothHandlers ELSE {})
              /\ popupContent = (IF phase = "mounted" THEN "$el" ELSE "none")

C14_Witness ==
    /\ Active /\ phase = "mounted" /\ lastAct = "Render"
    /\ nChanged >= 1 /\ prevOpen = open
    /\ popupOpen
    /\ calls = << "setOptions" >>

OpenCloseCalls == Count(calls, "open") + Count(calls, "close")

\* C15: with `open` two-way bound the `open` watcher and the SDK event
\* handlers do not feed each other for ever: a parent change or an
\* SDK-originated open/close makes no call by itself and at most one
\* `update` per SDK event, the one flush that follows makes at most one
\* open/close call and one `update` and leaves nothing to flush, and a
\* flush with nothing to flush does nothing.
C15_NoPingPong ==
    (Active /\ bound) =>
        /\ lastAct \in {"ParentSetOpen", "UserClose", "HandleOpen", "HandleReopen"} =>
              /\ calls = << >>
              /\ EmitCount("update") <= Len(fired)
              /\ Len(fired) <= 2
        /\ lastAct = "Render" =>
              /\ parentOpen = open
              /\ OpenCloseCalls <= 1
              /\ EmitCount("update") <= 1
              /\ (prevOpen = open /\ nChanged = 0) => calls = << >> /\ emits = << >>

C15_Witness ==
    /\ Active /\ bound /\ phase = "mounted"
    /\ lastAct = "Render"
    /\ ~prevOpen /\ open /\ prevPopupOpen
    /\ calls = << "open" >>
    /\ EmitCount("update") = 1
    /\ parentOpen = open

\* C16: the component holds both event registrations or neither: both
\* exactly after mount and before teardown, each added once, at mount, and
\* none after teardown, mounted or not; events.add is not called after
\* teardown.
C16_RegistrationsPaired ==
    /\ regs \in {{}, BothHandlers}
    /\ regs = (IF Active /\ phase = "mounted" THEN BothHandlers ELSE {})
    /\ Count(calls, "events.add:open") = (IF Active /\ lastAct = "Mounted" THEN 1 ELSE 0)
    /\ Count(calls, "events.add:close") = (IF Active /\ lastAct = "Mounted" THEN 1 ELSE 0)
    /\ phase = "destroyed" => lastAct # "Mounted"

C16_Witness ==
    /\ Active /\ phase = "destroyed" /\ lastAct = "Destroyed"
    /\ popupContent = "none"
    /\ regs = {}
    /\ Count(calls, "events.remove:open") = 1
    /\ Count(calls, "events.remove:close") = 1

====
